---------------------------- MODULE Spec2Model ----------------------------
(***************************************************************************)
(* Model of src/git/log.rs: the commit-log parser (parse_log_output,       *)
(* split_graph_and_data) and the four query functions built on the git     *)
(* invoker (get_log, get_recent_commits, commit_count, search_commits).    *)
(*                                                                         *)
(* A Rust &str is modelled as a sequence of characters; a character is a   *)
(* one-character string, except the unit separator 0x1f, written US.       *)
(* All characters of the model are ASCII, so byte offsets and character    *)
(* offsets coincide, as they do for every offset the code slices at.       *)
(***************************************************************************)
EXTENDS Integers, Sequences, FiniteSets, TLC

----------------------------------------------------------------------------
(* Characters *)

US == "<US>"
LF == "\n"
CR == "\r"
TAB == "\t"

SEPARATOR == US

LOG_FORMAT ==
  <<"%", "H", US, "%", "h", US, "%", "s", US, "%", "a", "n", US,
    "%", "a", "r", US, "%", "a", "I", US, "%", "P", US, "%", "D">>

\* char::is_whitespace, on the characters of the model
Whitespace == {" ", TAB, LF, CR}

\* fault: "_" left out of the graph characters
IsGraphChar_no_underscore(c) == c \in {"*", "|", "/", "\\", " "}

\* the test of split_graph_and_data's loop
IsGraphChar(c) == c \in {"*", "|", "/", "\\", " ", "_"}

----------------------------------------------------------------------------
(* Library functions of str the parser calls *)

\* str::find: index of the first character of s that is in pattern, or 0
Find(s, pattern) ==
  LET hits == {k \in 1..Len(s) : s[k] \in pattern}
  IN IF hits = {} THEN 0 ELSE CHOOSE k \in hits : \A j \in hits : k <= j

\* the rest of s after its first k characters
Tail0(s, k) == SubSeq(s, k + 1, Len(s))

\* str::split_inclusive('\n')
RECURSIVE SplitInclusive(_)
SplitInclusive(s) ==
  LET k == Find(s, {LF})
  IN IF s = <<>> THEN <<>>
     ELSE IF k = 0 THEN <<s>>
     ELSE <<SubSeq(s, 1, k)>> \o SplitInclusive(Tail0(s, k))

\* the map closure of str::lines: strip one "\n", then one "\r" before it;
\* a "\r" not followed by "\n" stays in the line
StripLineEnding(piece) ==
  IF piece # <<>> /\ piece[Len(piece)] = LF
  THEN LET l == SubSeq(piece, 1, Len(piece) - 1)
       IN IF l # <<>> /\ l[Len(l)] = CR THEN SubSeq(l, 1, Len(l) - 1) ELSE l
  ELSE piece

\* str::lines
Lines(s) ==
  LET pieces == SplitInclusive(s)
  IN [k \in 1..Len(pieces) |-> StripLineEnding(pieces[k])]

\* str::split(pattern): the fields between the matches, empty ones included
RECURSIVE Split(_, _)
Split(s, pattern) ==
  LET k == Find(s, pattern)
  IN IF k = 0 THEN <<s>>
     ELSE <<SubSeq(s, 1, k - 1)>> \o Split(Tail0(s, k), pattern)

\* fault: the empty pieces are kept
SplitWhitespaceKeepEmpty(s) == Split(s, Whitespace)

\* str::split_whitespace: split on whitespace, drop the empty pieces
SplitWhitespace(s) ==
  LET NonEmpty(p) == p # <<>>
  IN SelectSeq(Split(s, Whitespace), NonEmpty)

----------------------------------------------------------------------------
(* The line parser *)

\* the while loop of split_graph_and_data: the final value of i, counted
\* as the number of leading graph characters
RECURSIVE GraphScan(_, _)
GraphScan(line, i) ==
  IF i < Len(line)
  THEN IF IsGraphChar(line[i + 1]) THEN GraphScan(line, i + 1) ELSE i
  ELSE i

\* fault: data sliced one character late
split_graph_and_data_drop(line) ==
  LET i == GraphScan(line, 0)
  IN <<SubSeq(line, 1, i), SubSeq(line, i + 2, Len(line))>>

\* split_graph_and_data: (&line[..i], &line[i..])
split_graph_and_data(line) ==
  LET i == GraphScan(line, 0)
  IN <<SubSeq(line, 1, i), SubSeq(line, i + 1, Len(line))>>

MIN_FIELDS == 8

\* fault: hash and short_hash taken from each other's field
CommitEntry_swapped(parts, parents, graph) ==
  [hash |-> parts[2], short_hash |-> parts[1], message |-> parts[3],
   author |-> parts[4], date |-> parts[5], date_iso |-> parts[6],
   parents |-> parents, refs |-> parts[8], graph |-> graph]

CommitEntry(parts, parents, graph) ==
  [hash |-> parts[1], short_hash |-> parts[2], message |-> parts[3],
   author |-> parts[4], date |-> parts[5], date_iso |-> parts[6],
   parents |-> parents, refs |-> parts[8], graph |-> graph]

\* fault: a line of exactly 8 fields is dropped
parse_line_strict(line) ==
  LET gd == split_graph_and_data(line)
      graph == gd[1]
      data == gd[2]
      parts == Split(data, {SEPARATOR})
  IN IF data = <<>> THEN <<>>
     ELSE IF Len(parts) <= MIN_FIELDS THEN <<>>
     ELSE <<CommitEntry(parts, SplitWhitespace(parts[7]), graph)>>

\* one iteration of the for loop of parse_log_output: the entries it pushes
parse_line(line) ==
  LET gd == split_graph_and_data(line)
      graph == gd[1]
      data == gd[2]
      parts == Split(data, {SEPARATOR})
  IN IF data = <<>> THEN <<>>
     ELSE IF Len(parts) < MIN_FIELDS THEN <<>>
     ELSE <<CommitEntry(parts, SplitWhitespace(parts[7]), graph)>>

\* fault: the entry is inserted at the front
loop_body_prepend(entries, line) == parse_line(line) \o entries

\* the body of the for loop: entries after the iteration on line
loop_body(entries, line) == entries \o parse_line(line)

RECURSIVE ParseFrom(_, _, _)
ParseFrom(ls, k, entries) ==
  IF k > Len(ls) THEN entries
  ELSE ParseFrom(ls, k + 1, loop_body(entries, ls[k]))

parse_log_output(output) == ParseFrom(Lines(output), 1, <<>>)

----------------------------------------------------------------------------
(* Inputs of the parser *)

MaxLines == 2
MaxFields == 9
MaxLen == 3

\* the sample of test_parse_log_output
Sample ==
  <<"*", " ", "a", "b", "c", "1", "2", "3", "d", "e", "f", "4", "5", "6", "a", "b", "c", "1", "2",
    "3", "d", "e", "f", "4", "5", "6", "a", "b", "c", "1", "2", "3", "d", "e", "f", "4", "5", "6", "a",
    "b", "c", "1", "2", "3", US, "a", "b", "c", "1", "2", "3", "d", US, "f", "e", "a", "t", ":", " ",
    "a", "d", "d", " ", "l", "o", "g", "i", "n", US, "J", "o", "h", "n", US, "2", " ", "h", "o", "u",
    "r", "s", " ", "a", "g", "o", US, "2", "0", "2", "6", "-", "0", "2", "-", "1", "0", "T", "1", "0",
    ":", "0", "0", ":", "0", "0", "+", "0", "5", ":", "3", "0", US, US, "H", "E", "A", "D", " ", "-",
    ">", " ", "m", "a", "i", "n", LF>>

\* field values a log line is built from; a field past the last one is "x"
Profile1 ==
  << <<"a", "b">>, <<"a">>, <<"F", "i", "x">>, <<"J">>, <<"2", " ", "h">>,
     <<"T">>, <<>>, <<"H", " ", "-", ">", " ", "m">>, <<"y">> >>

Profile2 ==
  << <<"a">>, <<"b">>, <<"m", "*">>, <<>>, <<"d">>,
     <<"i">>, <<"a", " ", "b">>, <<>>, <<>> >>

Profile3 ==
  << <<>>, <<"c">>, <<" ">>, <<"K">>, <<"d">>,
     <<"i">>, <<" ", "p", TAB, "q", " ", " ", "r", " ">>, <<"t", CR>>, <<"z">> >>

Profile4 ==
  << <<"c", "d">>, <<"c", "d">>, <<"f", "i", "x">>, <<"K">>, <<"d">>,
     <<"i">>, <<" ">>, <<"v">>, <<"z">> >>

FieldAt(profile, k) == IF k <= Len(profile) THEN profile[k] ELSE <<"x">>

RECURSIVE JoinFields(_, _)
JoinFields(profile, n) ==
  IF n = 0 THEN <<>>
  ELSE IF n = 1 THEN FieldAt(profile, 1)
  ELSE JoinFields(profile, n - 1) \o <<US>> \o FieldAt(profile, n)

LineShapes ==
  { << <<"*", " ">>, Profile1 >>, << <<>>, Profile2 >>,
    << <<"|", "_", "/", " ">>, Profile3 >> }

FieldCounts == {0, 1} \cup (7..MaxFields)

LineSet ==
  { sh[1] \o JoinFields(sh[2], n) : sh \in LineShapes, n \in FieldCounts }
    \cup { <<"\\", "|">> \o JoinFields(Profile4, 8) }

RECURSIVE JoinLines(_, _)
JoinLines(ls, trailing) ==
  IF ls = <<>> THEN <<>>
  ELSE IF Len(ls) = 1 THEN ls[1] \o (IF trailing THEN <<LF>> ELSE <<>>)
  ELSE ls[1] \o <<LF>> \o JoinLines(Tail(ls), trailing)

LogTexts ==
  UNION { { JoinLines(ls, t) : ls \in [1..n -> LineSet], t \in BOOLEAN } : n \in 0..MaxLines }

\* one line more, over fewer lines: two that parse, two that do not
CoreLines ==
  { <<"*", " ">> \o JoinFields(Profile1, 8), JoinFields(Profile2, 8),
    <<"*", " ">> \o JoinFields(Profile1, 7), <<"|", " ">> }

LongTexts == { JoinLines(ls, TRUE) : ls \in [1..(MaxLines + 1) -> CoreLines] }

\* the line of test_split_graph_and_data
SplitSample == <<"*", " ", "|", " ", "a", "b", "c", "1", "2", "3">>

RawChars == {"*", "a", US, LF, CR}

RawTexts == UNION { [1..n -> RawChars] : n \in 0..MaxLen }

ParserInputs == LogTexts \cup LongTexts \cup RawTexts \cup {Sample, SplitSample}

----------------------------------------------------------------------------
(* Replies of the invoker *)

MaxDigits == 2
MaxCount == 2

Ok(v) == [ok |-> TRUE, val |-> v]
Err(e) == [ok |-> FALSE, err |-> e]

None == [some |-> FALSE]
Some(v) == [some |-> TRUE, val |-> v]

DigitChars == <<"0", "1", "2", "3", "4", "5", "6", "7", "8", "9">>

Digits == {DigitChars[k] : k \in 1..10}

NumeralBodies ==
  UNION { [1..n -> {"0", "7"}] : n \in 0..MaxDigits }

OddBodies ==
  { <<"+", "5">>, <<"-", "3">>, <<"-", "0">>, <<"+">>, <<"-">>, <<"+", "-", "1">>,
    <<"1", "a">>, <<"a">>, <<"1", " ", "2">>, <<"1", ".", "5">>,
    <<"2", "1", "4", "7", "4", "8", "3", "6", "4", "8">>,
    <<"1", "8", "4", "4", "6", "7", "4", "4", "0", "7", "3", "7", "0", "9", "5", "5", "1", "6", "1", "5">>,
    <<"1", "8", "4", "4", "6", "7", "4", "4", "0", "7", "3", "7", "0", "9", "5", "5", "1", "6", "1", "6">>,
    <<"9", "9", "9", "9", "9", "9", "9", "9", "9", "9", "9", "9", "9", "9", "9", "9", "9", "9", "9", "9">>,
    <<"0", "0", "0", "0", "0", "0", "0", "0", "0", "0", "0", "0", "0", "0", "0", "0", "0", "0", "0", "0", "4", "2">> }

CountTexts ==
  { b \o <<LF>> : b \in NumeralBodies \cup OddBodies }
    \cup { <<"7">>, <<" ", "7", " ", LF>>, <<TAB, "1", "2", CR, LF>>, <<LF, "3", LF, LF>> }

\* lines whose messages are "Fix", "m*", "fix", and one that does not parse
ReplyLines ==
  { JoinFields(Profile1, 8), JoinFields(Profile2, 8), JoinFields(Profile4, 9),
    <<"*", " ">> \o JoinFields(Profile1, 7) }

ReplyTexts ==
  { JoinLines(ls, TRUE) : ls \in {<<>>} \cup [1..1 -> ReplyLines] \cup [1..2 -> ReplyLines] }

Failures == {"exit 128", "spawn failed"}

\* what run_git can return: the captured text, or a failure
Replies ==
  { Ok(t) : t \in ReplyTexts \cup CountTexts } \cup { Err(e) : e \in Failures }

Counts == 1..MaxCount
Skips == {0, 10}
Branches == {None, Some(<<"m", "a", "i", "n">>)}
Queries == {<<"f", "i", "x">>, <<"M">>}

----------------------------------------------------------------------------
(* State *)

VARIABLES
  output,    \* parse_log_output: its argument
  pc,        \* parse_log_output: "loop" or "returned" ("idle": not called)
  lineNo,    \* parse_log_output: number of lines the loop has consumed
  graph,     \* parse_log_output: graph of the last iteration
  data,      \* parse_log_output: data of the last iteration
  entries,   \* parse_log_output: the vector being built, then returned
  invoker,   \* what run_git returns
  calls      \* per query function, its last call: parameters, arguments
             \* passed to run_git, and the value returned

vars == <<output, pc, lineNo, graph, data, entries, invoker, calls>>

parserVars == <<output, pc, lineNo, graph, data, entries>>

QueryFunctions == {"get_log", "get_recent_commits", "commit_count", "search_commits"}

NotCalled == [called |-> FALSE]

Called(params, r) ==
  [called |-> TRUE, params |-> params, args |-> r.args, ret |-> r.ret]

----------------------------------------------------------------------------
(* The query functions *)

run_git(args) == invoker

\* format!("{}", n) of an unsigned number
RECURSIVE Decimal(_)
Decimal(n) ==
  IF n < 10 THEN <<DigitChars[n + 1]>>
  ELSE Decimal(n \div 10) \o <<DigitChars[(n % 10) + 1]>>

Str_log == <<"l", "o", "g">>
Str_graph == <<"-", "-", "g", "r", "a", "p", "h">>
Str_i == <<"-", "i">>
Str_rev_list == <<"r", "e", "v", "-", "l", "i", "s", "t">>
Str_count == <<"-", "-", "c", "o", "u", "n", "t">>
Str_HEAD == <<"H", "E", "A", "D">>
Str_skip == <<"-", "-", "s", "k", "i", "p", "=">>
Str_format == <<"-", "-", "f", "o", "r", "m", "a", "t", "=">>
Str_grep == <<"-", "-", "g", "r", "e", "p", "=">>

\* fault: a failure of run_git becomes an empty result
get_log_swallow(count, skip, branch) ==
  LET count_str == <<"-">> \o Decimal(count)
      skip_str == Str_skip \o Decimal(skip)
      format_str == Str_format \o LOG_FORMAT
      args == <<Str_log, count_str, skip_str, format_str, Str_graph>>
                \o (IF branch.some THEN <<branch.val>> ELSE <<>>)
      out == run_git(args)
  IN [args |-> args,
      ret |-> IF out.ok THEN Ok(parse_log_output(out.val)) ELSE Ok(<<>>)]

get_log(count, skip, branch) ==
  LET count_str == <<"-">> \o Decimal(count)
      skip_str == Str_skip \o Decimal(skip)
      format_str == Str_format \o LOG_FORMAT
      args == <<Str_log, count_str, skip_str, format_str, Str_graph>>
                \o (IF branch.some THEN <<branch.val>> ELSE <<>>)
      out == run_git(args)
  IN [args |-> args,
      ret |-> IF out.ok THEN Ok(parse_log_output(out.val)) ELSE Err(out.err)]

\* fault: skips the newest commit
get_recent_commits_skip_one(count) == get_log(count, 1, None)

get_recent_commits(count) == get_log(count, 0, None)

\* str::trim
Trim(s) ==
  LET keep == {k \in 1..Len(s) : s[k] \notin Whitespace}
  IN IF keep = {} THEN <<>>
     ELSE SubSeq(s, CHOOSE k \in keep : \A j \in keep : k <= j,
                    CHOOSE k \in keep : \A j \in keep : k >= j)

\* A usize is held as three base-10^7 limbs, most significant first, so
\* that the checked arithmetic of the 64-bit parse is exact.
Limb == 10000000
USIZE_MAX == <<184467, 4407370, 9551615>>
USIZE_ZERO == <<0, 0, 0>>

LimbsLeq(a, b) ==
  \/ a[1] < b[1]
  \/ a[1] = b[1] /\ a[2] < b[2]
  \/ a[1] = b[1] /\ a[2] = b[2] /\ a[3] <= b[3]

DigitValue(c) == (CHOOSE k \in 1..10 : DigitChars[k] = c) - 1

\* result.checked_mul(10) then checked_add(d): the limbs, unreduced at the top
MulAdd(acc, d) ==
  LET t0 == acc[3] * 10 + d
      t1 == acc[2] * 10 + (t0 \div Limb)
      t2 == acc[1] * 10 + (t1 \div Limb)
  IN <<t2, t1 % Limb, t0 % Limb>>

\* the digit loop of usize::from_str
RECURSIVE ParseDigits(_, _, _)
ParseDigits(ds, k, acc) ==
  IF k > Len(ds) THEN Ok(acc)
  ELSE IF ds[k] \notin Digits THEN Err("InvalidDigit")
  ELSE LET next == MulAdd(acc, DigitValue(ds[k]))
       IN IF LimbsLeq(next, USIZE_MAX) THEN ParseDigits(ds, k + 1, next)
          ELSE Err("PosOverflow")

\* str::parse::<usize>
ParseUsize(s) ==
  IF s = <<>> THEN Err("Empty")
  ELSE IF s = <<"+">> \/ s = <<"-">> THEN Err("InvalidDigit")
  ELSE ParseDigits(IF s[1] = "+" THEN Tail(s) ELSE s, 1, USIZE_ZERO)

UnwrapOr(r, default) == IF r.ok THEN r.val ELSE default

\* fault: the output is parsed without trim()
commit_count_untrimmed ==
  LET args == <<Str_rev_list, Str_count, Str_HEAD>>
      out == run_git(args)
  IN [args |-> args,
      ret |-> IF out.ok THEN Ok(UnwrapOr(ParseUsize(out.val), USIZE_ZERO))
              ELSE Err(out.err)]

commit_count ==
  LET args == <<Str_rev_list, Str_count, Str_HEAD>>
      out == run_git(args)
  IN [args |-> args,
      ret |-> IF out.ok THEN Ok(UnwrapOr(ParseUsize(Trim(out.val)), USIZE_ZERO))
              ELSE Err(out.err)]

UpperCase == <<"A", "B", "C", "D", "E", "F", "G", "H", "I", "J", "K", "L", "M",
               "N", "O", "P", "Q", "R", "S", "T", "U", "V", "W", "X", "Y", "Z">>
LowerCase == <<"a", "b", "c", "d", "e", "f", "g", "h", "i", "j", "k", "l", "m",
               "n", "o", "p", "q", "r", "s", "t", "u", "v", "w", "x", "y", "z">>

ToLower(s) ==
  [k \in 1..Len(s) |->
     IF \E u \in 1..26 : UpperCase[u] = s[k]
     THEN LowerCase[CHOOSE u \in 1..26 : UpperCase[u] = s[k]]
     ELSE s[k]]

Contains(s, sub) ==
  \E k \in 0..(Len(s) - Len(sub)) : SubSeq(s, k + 1, k + Len(sub)) = sub

\* the message contains the query, letter case ignored
ContainsIgnoringCase(message, query) == Contains(ToLower(message), ToLower(query))

\* variant: the entries are filtered again after parsing
search_commits_filtering(query, count) ==
  LET count_str == <<"-">> \o Decimal(count)
      format_str == Str_format \o LOG_FORMAT
      grep_str == Str_grep \o query
      args == <<Str_log, count_str, format_str, grep_str, Str_i>>
      out == run_git(args)
      Matches(e) == ContainsIgnoringCase(e.message, query)
  IN [args |-> args,
      ret |-> IF out.ok THEN Ok(SelectSeq(parse_log_output(out.val), Matches))
              ELSE Err(out.err)]

search_commits(query, count) ==
  LET count_str == <<"-">> \o Decimal(count)
      format_str == Str_format \o LOG_FORMAT
      grep_str == Str_grep \o query
      args == <<Str_log, count_str, format_str, grep_str, Str_i>>
      out == run_git(args)
  IN [args |-> args,
      ret |-> IF out.ok THEN Ok(parse_log_output(out.val)) ELSE Err(out.err)]

----------------------------------------------------------------------------
(* Calls of the query functions against one invoker *)

Init ==
  /\ invoker \in Replies
  /\ calls = [f \in QueryFunctions |-> NotCalled]
  /\ output = <<>>
  /\ pc = "idle"
  /\ lineNo = 0
  /\ graph = <<>>
  /\ data = <<>>
  /\ entries = <<>>

GetLog(count, skip, branch) ==
  /\ pc = "idle"
  /\ calls' = [calls EXCEPT !["get_log"] =
                 Called(<<count, skip, branch>>, get_log(count, skip, branch))]
  /\ UNCHANGED <<invoker, parserVars>>

GetRecentCommits(count) ==
  /\ pc = "idle"
  /\ calls' = [calls EXCEPT !["get_recent_commits"] =
                 Called(<<count>>, get_recent_commits(count))]
  /\ UNCHANGED <<invoker, parserVars>>

CommitCount ==
  /\ pc = "idle"
  /\ calls' = [calls EXCEPT !["commit_count"] = Called(<<>>, commit_count)]
  /\ UNCHANGED <<invoker, parserVars>>

SearchCommits(query, count) ==
  /\ pc = "idle"
  /\ calls' = [calls EXCEPT !["search_commits"] =
                 Called(<<query, count>>, search_commits(query, count))]
  /\ UNCHANGED <<invoker, parserVars>>

Next ==
  \/ \E count \in Counts, skip \in Skips, branch \in Branches : GetLog(count, skip, branch)
  \/ \E count \in Counts : GetRecentCommits(count)
  \/ CommitCount
  \/ \E query \in Queries, count \in Counts : SearchCommits(query, count)

Spec == Init /\ [][Next]_vars

----------------------------------------------------------------------------
(* parse_log_output called on a literal text, one loop iteration at a time *)

InitParse ==
  /\ output \in ParserInputs
  /\ pc = "loop"
  /\ lineNo = 0
  /\ graph = <<>>
  /\ data = <<>>
  /\ entries = <<>>
  /\ invoker = Err("not invoked")
  /\ calls = [f \in QueryFunctions |-> NotCalled]

Iterate ==
  /\ pc = "loop"
  /\ lineNo < Len(Lines(output))
  /\ LET line == Lines(output)[lineNo + 1]
         gd == split_graph_and_data(line)
     IN /\ graph' = gd[1]
        /\ data' = gd[2]
        /\ entries' = loop_body(entries, line)
  /\ lineNo' = lineNo + 1
  /\ UNCHANGED <<output, pc, invoker, calls>>

Return ==
  /\ pc = "loop"
  /\ lineNo = Len(Lines(output))
  /\ pc' = "returned"
  /\ UNCHANGED <<output, lineNo, graph, data, entries, invoker, calls>>

NextParse == Iterate \/ Return

SpecParse == InitParse /\ [][NextParse]_vars

----------------------------------------------------------------------------
(* What the claims speak of, stated on the text itself *)

GlyphSet == {"*", "|", "/", "\\", "_", " "}

\* the r-th smallest element of a set of numbers
Nth(S, r) == CHOOSE x \in S : Cardinality({y \in S : y <= x}) = r

\* length of the longest leading run of glyph-set characters
GlyphRunLen(line) ==
  CHOOSE n \in 0..Len(line) :
    /\ \A k \in 1..n : line[k] \in GlyphSet
    /\ n < Len(line) => line[n + 1] \notin GlyphSet

GraphPrefix(line) == SubSeq(line, 1, GlyphRunLen(line))

DataSegment(line) == SubSeq(line, GlyphRunLen(line) + 1, Len(line))

DelimiterAt(d) == {k \in 1..Len(d) : d[k] = US}

NumFields(d) == Cardinality(DelimiterAt(d)) + 1

\* the j-th delimited field of d, 1 <= j <= NumFields(d)
FieldOf(d, j) ==
  LET cuts == DelimiterAt(d) \cup {0, Len(d) + 1}
  IN SubSeq(d, Nth(cuts, j) + 1, Nth(cuts, j + 1) - 1)

\* the line has a non-empty data segment of at least 8 fields
Yields(line) == DataSegment(line) # <<>> /\ NumFields(DataSegment(line)) >= 8

\* the maximal runs of non-whitespace characters of f, left to right
Words(f) ==
  LET starts == {k \in 1..Len(f) : f[k] \notin Whitespace /\ (k = 1 \/ f[k - 1] \in Whitespace)}
      ends == {k \in 1..Len(f) : f[k] \notin Whitespace /\ (k = Len(f) \/ f[k + 1] \in Whitespace)}
  IN [r \in 1..Cardinality(starts) |-> SubSeq(f, Nth(starts, r), Nth(ends, r))]

IsPrefix(p, s) == Len(p) <= Len(s) /\ SubSeq(s, 1, Len(p)) = p

LineAt(j) == Lines(output)[j]

\* the line of the last iteration, and the entry it pushed
CurLine == LineAt(lineNo)
CurData == DataSegment(CurLine)
LastEntry == entries[Len(entries)]
Pushed == lineNo >= 1 /\ Yields(CurLine)

EntryFields ==
  {"hash", "short_hash", "message", "author", "date", "date_iso", "parents", "refs", "graph"}

----------------------------------------------------------------------------
(* Claims about the parser, checked under SpecParse *)

\* C1: a line yields a record if and only if its data segment is non-empty
\* and has at least 8 delimited fields; other lines yield nothing, no partial
\* record, and the loop goes on to the end of the text after them.
C1_RecordIffEightFields ==
  /\ Len(entries) = Cardinality({j \in 1..lineNo : Yields(LineAt(j))})
  /\ \A k \in 1..Len(entries) : DOMAIN entries[k] = EntryFields
  /\ pc = "returned" => lineNo = Len(Lines(output))

\* a short line and a glyph-only line were dropped, then a later line parsed
C1_Witness ==
  /\ pc = "returned" /\ lineNo = 3 /\ Len(entries) = 1
  /\ DataSegment(LineAt(1)) # <<>> /\ NumFields(DataSegment(LineAt(1))) = 7
  /\ LineAt(2) # <<>> /\ DataSegment(LineAt(2)) = <<>>
  /\ Yields(LineAt(3))

\* C3 as stated: in every entry, short_hash is a prefix of hash.
C3_ShortHashIsPrefix ==
  \A k \in 1..Len(entries) : IsPrefix(entries[k].short_hash, entries[k].hash)

\* C3 amended: in the entry of a line, short_hash is a prefix of hash exactly
\* when the line's 2nd field is a prefix of its 1st field.
C3_PrefixAsInInput ==
  Pushed =>
    /\ Len(entries) >= 1
    /\ IsPrefix(LastEntry.short_hash, LastEntry.hash)
         <=> IsPrefix(FieldOf(CurData, 2), FieldOf(CurData, 1))

C3_Witness ==
  /\ Pushed /\ Len(entries) >= 1
  /\ FieldOf(CurData, 2) # <<>>
  /\ FieldOf(CurData, 2) # FieldOf(CurData, 1)
  /\ IsPrefix(LastEntry.short_hash, LastEntry.hash)

\* C4: graph followed by data is the line, character for character.
C4_SplitRejoins ==
  lineNo >= 1 =>
    /\ graph \o data = CurLine
    /\ CurLine = SplitSample =>
         /\ graph = <<"*", " ", "|", " ">>
         /\ data = <<"a", "b", "c", "1", "2", "3">>

C4_Witness == lineNo >= 1 /\ graph # <<>> /\ data # <<>> /\ Len(CurLine) >= 10

C9_ParentsSplit ==
  Pushed =>
    /\ Len(entries) >= 1
    /\ LastEntry.parents = Words(FieldOf(CurData, 7))
    /\ \A k \in 1..Len(LastEntry.parents) : LastEntry.parents[k] # <<>>
    /\ FieldOf(CurData, 7) \in {<<>>, <<" ">>} => LastEntry.parents = <<>>
    /\ FieldOf(CurData, 7) = <<"a", " ", "b">> => LastEntry.parents = << <<"a">>, <<"b">> >>

\* a 7th field with leading, doubled and trailing whitespace
C9_Witness ==
  /\ Pushed /\ Len(entries) >= 1
  /\ FieldOf(CurData, 7) = <<" ", "p", TAB, "q", " ", " ", "r", " ">>
  /\ LastEntry.parents = << <<"p">>, <<"q">>, <<"r">> >>

\* C10: the entries are, in order, the records of the lines that parse:
\* the r-th entry comes from the r-th such line; none is duplicated and
\* there are never more entries than lines.
C10_InputOrder ==
  LET good == {j \in 1..lineNo : Yields(LineAt(j))}
  IN /\ Len(entries) = Cardinality(good)
     /\ Len(entries) <= lineNo
     /\ \A r \in 1..Len(entries) :
          LET line == LineAt(Nth(good, r))
          IN /\ entries[r].graph = GraphPrefix(line)
             /\ entries[r].hash = FieldOf(DataSegment(line), 1)
             /\ entries[r].refs = FieldOf(DataSegment(line), 8)

\* two different records around a dropped line
C10_Witness ==
  /\ pc = "returned" /\ lineNo = 3 /\ Len(entries) = 2
  /\ ~Yields(LineAt(2))
  /\ entries[1].hash # entries[2].hash

----------------------------------------------------------------------------
(* What the claims about the query functions speak of *)

\* the decimal digits of t, when t is digits with an optional leading "+"
NumeralDigits(t) == IF t # <<>> /\ t[1] = "+" THEN Tail(t) ELSE t

IsNumeral(t) ==
  /\ NumeralDigits(t) # <<>>
  /\ \A k \in 1..Len(NumeralDigits(t)) : NumeralDigits(t)[k] \in Digits

\* ds without its leading zeros
Significant(ds) ==
  LET nz == {k \in 1..Len(ds) : ds[k] # "0"}
  IN IF nz = {} THEN <<>> ELSE SubSeq(ds, CHOOSE k \in nz : \A j \in nz : k <= j, Len(ds))

\* 2^64 - 1
UsizeMaxDigits ==
  <<"1", "8", "4", "4", "6", "7", "4", "4", "0", "7", "3", "7", "0", "9", "5", "5", "1", "6", "1", "5">>

\* the number ds denotes is at most 2^64 - 1
FitsUsize(ds) ==
  LET c == Significant(ds)
      m == UsizeMaxDigits
  IN \/ Len(c) < Len(m)
     \/ /\ Len(c) = Len(m)
        /\ \/ c = m
           \/ \E k \in 1..Len(m) :
                /\ DigitValue(c[k]) < DigitValue(m[k])
                /\ \A j \in 1..(k - 1) : c[j] = m[j]

Pow10 == <<1000000, 100000, 10000, 1000, 100, 10, 1>>

RECURSIVE PlaceSum(_, _)
PlaceSum(chunk, k) ==
  IF k > 7 THEN 0 ELSE DigitValue(chunk[k]) * Pow10[k] + PlaceSum(chunk, k + 1)

\* the number a numeral of at most 21 significant digits denotes, in limbs
Denoted(ds) ==
  LET c == Significant(ds)
      pad == 21 - Len(c)
      padded == [k \in 1..21 |-> IF k <= pad THEN "0" ELSE c[k - pad]]
  IN [j \in 1..3 |-> PlaceSum(SubSeq(padded, 7 * (j - 1) + 1, 7 * j), 1)]

\* the lines of a text that have a non-empty data segment of 8 fields or more
YieldingLines(text) == {j \in 1..Len(Lines(text)) : Yields(Lines(text)[j])}

----------------------------------------------------------------------------
(* Claims about the query functions, checked under Spec *)

\* C2: when the invoker fails, every query function returns that failure,
\* unchanged, and no entries.
C2_FailurePropagates ==
  ~invoker.ok =>
    \A f \in QueryFunctions :
      calls[f].called => calls[f].ret = [ok |-> FALSE, err |-> invoker.err]

C2_Witness ==
  /\ ~invoker.ok
  /\ \A f \in QueryFunctions : calls[f].called

\* C5: with the same invoker output, get_recent_commits(n) passes the same
\* arguments to the invoker and returns the same result as get_log(n, 0, None).
C5_RecentIsLog ==
  LET g == calls["get_log"]
      r == calls["get_recent_commits"]
  IN (g.called /\ r.called /\ g.params = <<r.params[1], 0, None>>) =>
       /\ r.args = g.args
       /\ r.ret = g.ret

C5_Witness ==
  LET g == calls["get_log"]
      r == calls["get_recent_commits"]
  IN /\ g.called /\ r.called /\ g.params = <<r.params[1], 0, None>>
     /\ invoker.ok /\ r.ret.ok /\ Len(r.ret.val) = 2

\* C6 as stated: search_commits returns only entries whose message contains
\* the query, letter case ignored, whatever text the invoker returns.
C6_OnlyMatchingMessages ==
  LET c == calls["search_commits"]
  IN (c.called /\ c.ret.ok) =>
       \A k \in 1..Len(c.ret.val) :
         ContainsIgnoringCase(c.ret.val[k].message, c.params[1])

\* C6 amended: search_commits passes --grep=<query> and -i to the invoker
\* (after log, -<n> and the format, and without --graph) and returns the
\* entry of every line of the invoker's text that parses, in order, whether
\* or not its message contains the query.
C6_GrepIsLeftToGit ==
  LET c == calls["search_commits"]
  IN c.called =>
       /\ c.args = <<Str_log, <<"-">> \o Decimal(c.params[2]), Str_format \o LOG_FORMAT,
                     Str_grep \o c.params[1], Str_i>>
       /\ invoker.ok =>
            /\ c.ret.ok
            /\ Len(c.ret.val) = Cardinality(YieldingLines(invoker.val))
            /\ \A r \in 1..Len(c.ret.val) :
                 c.ret.val[r].message =
                   FieldOf(DataSegment(Lines(invoker.val)[Nth(YieldingLines(invoker.val), r)]), 3)

\* an entry that matches the query and one that does not
C6_Witness ==
  LET c == calls["search_commits"]
  IN /\ c.called /\ c.ret.ok /\ Len(c.ret.val) = 2
     /\ ContainsIgnoringCase(c.ret.val[1].message, c.params[1])
     /\ c.ret.val[1].message # c.params[1]
     /\ ~ContainsIgnoringCase(c.ret.val[2].message, c.params[1])

\* C7: when the invoker succeeds, commit_count succeeds: it returns the
\* number the trimmed output denotes when that parses as a usize, and 0
\* for every other output.
C7_CountOrZero ==
  LET c == calls["commit_count"]
      t == Trim(invoker.val)
      parses == IsNumeral(t) /\ FitsUsize(NumeralDigits(t))
  IN (invoker.ok /\ c.called) =>
       /\ c.ret.ok
       /\ parses => c.ret.val = Denoted(NumeralDigits(t))
       /\ ~parses => c.ret.val = USIZE_ZERO

\* surrounding whitespace is trimmed and the number returned
C7_Witness ==
  /\ invoker.ok /\ invoker.val = <<TAB, "1", "2", CR, LF>>
  /\ calls["commit_count"].called
  /\ calls["commit_count"].ret = Ok(<<0, 0, 12>>)

=============================================================================
